---- MODULE Spec2Model ----
(***************************************************************************)
(* Model of the Powenetics v2 driver (src/src/lib.rs): the calibration     *)
(* handshake, start_measurement, the measurement loop `wait`, energy       *)
(* integration per channel and subscriber dispatch.                        *)
(*                                                                         *)
(* Numbers wider than 31 bits (u32 power, u64 energy, u128 milliseconds)   *)
(* are little-endian sequences of bytes, so that every Rust integer keeps  *)
(* its width: W32 = 4 bytes, W64 = 8 bytes, W128 = 16 bytes.               *)
(***************************************************************************)
EXTENDS Integers, Sequences, FiniteSets, TLC

\* ------------------------------------------------------------------ bounds
MaxSubs == 3
MaxFrames == 3
MaxEnergySubs == 1
MaxEnergyFrames == 3
MaxLongFrames == 65537
MaxId == 14

\* ------------------------------------------------------- program constants
POWENETICS_MEASUREMENT_PACKET_SIZE == 69
NumChannels == 13
\* "PMD is ready!" as ASCII bytes
POWENETICS_READY_MESSAGE == <<80, 77, 68, 32, 105, 115, 32, 114, 101, 97, 100, 121, 33>>
FrameMarker == <<202, 172>>
CmdCalibrate == <<202>>
CmdResetCalibration == <<202, 172, 189, 0>>
CmdFinalizeCalibration == <<202, 172, 189, 1>>
CmdBeginStreaming == <<202, 172, 189, 144>>
U16Modulus == 65536

ChannelIds == 0 .. (NumChannels - 1)

\* ------------------------------------------------- wide unsigned arithmetic
Zeros16 == <<0, 0, 0, 0, 0, 0, 0, 0, 0, 0, 0, 0, 0, 0, 0, 0>>

WZero(n) == SubSeq(Zeros16, 1, n)

\* the n-byte little-endian form of an integer 0 <= x < 2^31
WFromInt(x, n) ==
  SubSeq(<<x % 256, (x \div 256) % 256, (x \div 65536) % 256,
           (x \div 16777216) % 256>> \o Zeros16, 1, n)

WByte(a, i) == IF i \in 1..Len(a) THEN a[i] ELSE 0

\* widening (zero extension) or truncation (keeping the low n bytes)
WResize(a, n) ==
  IF Len(a) >= n THEN SubSeq(a, 1, n) ELSE a \o WZero(n - Len(a))

\* TRUE iff a does not fit in n bytes
WExceeds(a, n) == \E i \in (n + 1)..Len(a) : a[i] # 0

\* the bytes i .. n of a + b and the last carry, a and b both n bytes long
RECURSIVE WAddIter(_, _, _, _, _, _)
WAddIter(a, b, n, i, carry, acc) ==
  IF i > n THEN Append(acc, carry)
  ELSE LET t == a[i] + b[i] + carry
       IN  WAddIter(a, b, n, i + 1, t \div 256, Append(acc, t % 256))

WAddSized(a, b, n) == WAddIter(WResize(a, n), WResize(b, n), n, 1, 0, <<>>)

\* exact sum, one byte longer than the longer operand
WAddFull(a, b) == WAddSized(a, b, IF Len(a) > Len(b) THEN Len(a) ELSE Len(b))

\* a without its most significant zero bytes
RECURSIVE WTrim(_)
WTrim(a) ==
  IF Len(a) = 0 \/ a[Len(a)] # 0 THEN a ELSE WTrim(SubSeq(a, 1, Len(a) - 1))

RECURSIVE WColumn(_, _, _, _, _)
\* sum of a[k] * b[j - k + 1] over k = i .. hi
WColumn(a, b, j, i, hi) ==
  IF i > hi THEN 0
  ELSE a[i] * b[j - i + 1] + WColumn(a, b, j, i + 1, hi)

\* the bytes j .. la + lb of a * b, a of la bytes and b of lb bytes
RECURSIVE WMulIter(_, _, _, _, _, _, _)
WMulIter(a, b, la, lb, j, carry, acc) ==
  IF j > la + lb THEN acc
  ELSE LET t == WColumn(a, b, j, IF j > lb THEN j - lb + 1 ELSE 1,
                        IF j < la THEN j ELSE la) + carry
       IN  WMulIter(a, b, la, lb, j + 1, t \div 256, Append(acc, t % 256))

WMulSized(a, b) == WMulIter(a, b, Len(a), Len(b), 1, 0, <<>>)

\* exact product, Len(a) + Len(b) bytes
WMulFull(a, b) == WResize(WMulSized(WTrim(a), WTrim(b)), Len(a) + Len(b))

RECURSIVE WLessFrom(_, _, _)
WLessFrom(a, b, i) ==
  IF i = 0 THEN FALSE
  ELSE IF WByte(a, i) # WByte(b, i) THEN WByte(a, i) < WByte(b, i)
  ELSE WLessFrom(a, b, i - 1)

WLess(a, b) == WLessFrom(a, b, IF Len(a) > Len(b) THEN Len(a) ELSE Len(b))

WEq(a, b) == ~WLess(a, b) /\ ~WLess(b, a)

\* ---------------------------------------------------------------- time
\* time::SystemTime as whole seconds and nanoseconds since the Unix epoch
UNIX_EPOCH == [secs |-> 0, nanos |-> 0]

TimeLess(a, b) ==
  \/ a.secs < b.secs
  \/ a.secs = b.secs /\ a.nanos < b.nanos

\* a zero Duration instead of an error when earlier is in fact later
duration_since_saturating(later, earlier) ==
  IF TimeLess(later, earlier) THEN [ok |-> TRUE, secs |-> 0, nanos |-> 0]
  ELSE IF later.nanos >= earlier.nanos
       THEN [ok |-> TRUE, secs |-> later.secs - earlier.secs,
             nanos |-> later.nanos - earlier.nanos]
       ELSE [ok |-> TRUE, secs |-> later.secs - earlier.secs - 1,
             nanos |-> later.nanos + 1000000000 - earlier.nanos]

\* SystemTime::duration_since: the Duration later - earlier, or an error when
\* earlier is in fact later
duration_since(later, earlier) ==
  IF TimeLess(later, earlier) THEN [ok |-> FALSE, secs |-> 0, nanos |-> 0]
  ELSE IF later.nanos >= earlier.nanos
       THEN [ok |-> TRUE, secs |-> later.secs - earlier.secs,
             nanos |-> later.nanos - earlier.nanos]
       ELSE [ok |-> TRUE, secs |-> later.secs - earlier.secs - 1,
             nanos |-> later.nanos + 1000000000 - earlier.nanos]

\* the milliseconds of the whole seconds only
as_millis_whole_secs(d) ==
  WResize(WMulFull(WFromInt(d.secs, 4), WFromInt(1000, 2)), 16)

\* Duration::as_millis: secs * 1000 + nanos / 1_000_000 as u128
as_millis(d) ==
  WResize(WAddFull(WMulFull(WFromInt(d.secs, 4), WFromInt(1000, 2)),
                   WFromInt(d.nanos \div 1000000, 2)), 16)

\* ------------------------------------------------------------- channels
\* Channel as built by `new`
NewChannel(i) ==
  [id |-> i, voltage |-> 0, current |-> 0, energy |-> WZero(8),
   last_update |-> UNIX_EPOCH]

\* Channel::power: (voltage as u32) * current in u32.  The exact product is
\* `exact`; `overflow` tells that it does not fit in 32 bits, `value` is the
\* product wrapped to 32 bits.
power(ch) ==
  LET exact == WMulFull(WFromInt(ch.voltage, 2), WFromInt(ch.current, 4))
  IN  [overflow |-> WExceeds(exact, 4), value |-> WResize(exact, 4)]

\* (self.power() as u64) * (duration.as_millis() as u64) in u64
EnergyIncrement(p, d) ==
  LET exact == WMulFull(p, WResize(as_millis(d), 8))
  IN  [overflow |-> WExceeds(exact, 8), value |-> WResize(exact, 8)]

\* self.energy = inc, the increment replacing the energy
EnergyAssign(energy, inc) == [overflow |-> FALSE, value |-> inc]

\* self.energy += inc in u64
EnergyAdd(energy, inc) ==
  LET exact == WAddFull(energy, inc)
  IN  [overflow |-> WExceeds(exact, 8), value |-> WResize(exact, 8)]

\* update_energy integrating from the Unix epoch on the first sample
update_energy_no_baseline(ch, time, checks) ==
  LET d   == duration_since(time, ch.last_update)
      p   == power(ch)
      inc == EnergyIncrement(p.value, d)
      sum == EnergyAdd(ch.energy, inc.value)
  IN  IF ~d.ok THEN [status |-> "SystemTime", ch |-> ch]
      ELSE IF checks /\ (p.overflow \/ inc.overflow \/ sum.overflow)
           THEN [status |-> "Panic", ch |-> ch]
           ELSE [status |-> "Ok",
                 ch |-> [ch EXCEPT !.energy = sum.value, !.last_update = time]]

\* Channel::update_energy.  `checks` is the build's overflow-checks setting:
\* with it an arithmetic overflow panics, without it the result wraps.
\* status is "Ok", "SystemTime" (duration_since failed) or "Panic".
update_energy(ch, time, checks) ==
  IF ch.last_update # UNIX_EPOCH
  THEN LET d   == duration_since(time, ch.last_update)
           p   == power(ch)
           inc == EnergyIncrement(p.value, d)
           sum == EnergyAdd(ch.energy, inc.value)
       IN  IF ~d.ok THEN [status |-> "SystemTime", ch |-> ch]
           ELSE IF checks /\ (p.overflow \/ inc.overflow \/ sum.overflow)
                THEN [status |-> "Panic", ch |-> ch]
                ELSE [status |-> "Ok",
                      ch |-> [ch EXCEPT !.energy = sum.value,
                                        !.last_update = time]]
  ELSE [status |-> "Ok", ch |-> [ch EXCEPT !.last_update = time]]

\* Channel::reset_energy
reset_energy(ch) == [ch EXCEPT !.energy = WZero(8)]

\* PoweneticsData::channel_by_id: "InvalidChannel", "Panic" (index out of
\* bounds) or "Ok" with the channel found
channel_by_id(channels, id) ==
  IF id > NumChannels THEN [status |-> "InvalidChannel", id |-> 0]
  ELSE IF id \notin DOMAIN channels THEN [status |-> "Panic", id |-> 0]
  ELSE [status |-> "Ok", id |-> channels[id].id]

\* ------------------------------------------------------------ wire format
\* u16::from_be_bytes
be_u16(b) == b[1] * 256 + b[2]

\* u32::from_be_bytes([0, b1, b2, b3])
be_u24(b) == b[1] * 65536 + b[2] * 256 + b[3]

\* u16 as two big-endian bytes
U16Bytes(x) == <<(x \div 256) % 256, x % 256>>

\* reference.to_be_bytes()[1..]: the low three bytes, most significant first
ReferenceBytes(reference) ==
  <<(reference \div 65536) % 256, (reference \div 256) % 256, reference % 256>>

\* only the first marker byte compared
MarkerOkFirstByte(frame) == frame[1] = FrameMarker[1]

\* buf[..2] == [0xCA, 0xAC]
MarkerOk(frame) == SubSeq(frame, 1, 2) = FrameMarker

\* u16::from_be_bytes(buf[2..4])
SequenceReceived(frame) == be_u16(SubSeq(frame, 3, 4))

\* the increment done in u8
NextSequenceU8(sequence) == (sequence + 1) % 256

\* sequence.overflowing_add(1).0 on u16
NextSequence(sequence) == (sequence + 1) % U16Modulus

\* the sequence value `wait` starts with
FirstSequence == 1

\* channels packed at 4 bytes each
ChannelOffsetPacked(i) == 4 + i * 4 + 1

\* offset = 4 + i * 5 (0-based), as a 1-based position in the frame
ChannelOffset(i) == 4 + i * 5 + 1

FrameVoltage(frame, i) == be_u16(SubSeq(frame, ChannelOffset(i), ChannelOffset(i) + 1))

FrameCurrent(frame, i) ==
  be_u24(SubSeq(frame, ChannelOffset(i) + 2, ChannelOffset(i) + 4))

\* a UTF-8 continuation byte at position i of bytes, within lo..hi
Utf8Cont(bytes, i, lo, hi) == i <= Len(bytes) /\ bytes[i] >= lo /\ bytes[i] <= hi

\* decoding of the UTF-8 sequence that starts at position i: the number of
\* bytes it takes and its code point.  An ill-formed sequence takes its
\* maximal well-formed prefix (at least one byte) and gives U+FFFD.
Utf8Next(bytes, i) ==
  LET b  == bytes[i]
      lo == IF b = 224 THEN 160 ELSE IF b = 240 THEN 144 ELSE 128
      hi == IF b = 237 THEN 159 ELSE IF b = 244 THEN 143 ELSE 191
  IN  IF b < 128 THEN [len |-> 1, char |-> b]
      ELSE IF b >= 194 /\ b <= 223
      THEN IF Utf8Cont(bytes, i + 1, 128, 191)
           THEN [len |-> 2, char |-> (b - 192) * 64 + (bytes[i + 1] - 128)]
           ELSE [len |-> 1, char |-> 65533]
      ELSE IF b >= 224 /\ b <= 239
      THEN IF ~Utf8Cont(bytes, i + 1, lo, hi) THEN [len |-> 1, char |-> 65533]
           ELSE IF ~Utf8Cont(bytes, i + 2, 128, 191) THEN [len |-> 2, char |-> 65533]
           ELSE [len |-> 3,
                 char |-> (b - 224) * 4096 + (bytes[i + 1] - 128) * 64
                            + (bytes[i + 2] - 128)]
      ELSE IF b >= 240 /\ b <= 244
      THEN IF ~Utf8Cont(bytes, i + 1, lo, hi) THEN [len |-> 1, char |-> 65533]
           ELSE IF ~Utf8Cont(bytes, i + 2, 128, 191) THEN [len |-> 2, char |-> 65533]
           ELSE IF ~Utf8Cont(bytes, i + 3, 128, 191) THEN [len |-> 3, char |-> 65533]
           ELSE [len |-> 4,
                 char |-> (b - 240) * 262144 + (bytes[i + 1] - 128) * 4096
                            + (bytes[i + 2] - 128) * 64 + (bytes[i + 3] - 128)]
      ELSE [len |-> 1, char |-> 65533]

RECURSIVE Utf8LossyFrom(_, _)
Utf8LossyFrom(bytes, i) ==
  IF i > Len(bytes) THEN <<>>
  ELSE LET n == Utf8Next(bytes, i)
       IN  <<n.char>> \o Utf8LossyFrom(bytes, i + n.len)

\* String::from_utf8_lossy as the sequence of the code points of the string:
\* well-formed UTF-8 is decoded, every ill-formed sequence becomes one U+FFFD
from_utf8_lossy(bytes) == Utf8LossyFrom(bytes, 1)

\* str::starts_with
starts_with(str, prefix) ==
  /\ Len(str) >= Len(prefix)
  /\ SubSeq(str, 1, Len(prefix)) = prefix

\* the first three characters of the ready text taken for the whole of it
ReadyOkShort(bytes) ==
  starts_with(from_utf8_lossy(bytes), SubSeq(POWENETICS_READY_MESSAGE, 1, 3))

\* String::from_utf8_lossy(&buf).starts_with(POWENETICS_READY_MESSAGE)
ReadyOk(bytes) == starts_with(from_utf8_lossy(bytes), POWENETICS_READY_MESSAGE)

\* channel i with the voltage and current of the frame stored
StoreChannel(ch, frame) ==
  [ch EXCEPT !.voltage = FrameVoltage(frame, ch.id),
             !.current = FrameCurrent(frame, ch.id)]

\* the outcome of store-then-update_energy for each channel, taken
\* separately, as a sequence (channel i at position i + 1)
ChannelResults(chs, frame, time, checks) ==
  [k \in 1..NumChannels |->
     update_energy(StoreChannel(chs[k - 1], frame), time, checks)]

\* the result of update_energy dropped: the loop over the channels never ends
\* early
FirstFailureIgnored(res, i) == NumChannels

\* the index of the first channel whose update does not return Ok, or
\* NumChannels if every update does
RECURSIVE FirstFailure(_, _)
FirstFailure(res, i) ==
  IF i >= NumChannels \/ res[i + 1].status # "Ok" THEN i ELSE FirstFailure(res, i + 1)

\* the channels after the loop over them ended at channel f (NumChannels: it
\* ran to the end): channels before f are updated, channel f has the frame's
\* voltage and current only, later channels are as they were
ChannelsAfter(chs, frame, res, f) ==
  [i \in ChannelIds |->
     IF i < f THEN res[i + 1].ch
     ELSE IF i = f THEN StoreChannel(chs[i], frame)
     ELSE chs[i]]

\* the per-channel part of one iteration of `wait`: for each channel in
\* order, store voltage and current, then update_energy; the first failure
\* ends it.  `updated` counts the channels whose voltage and current were
\* stored.
UpdateOutcome(chs, frame, res, f) ==
  [status   |-> IF f < NumChannels THEN res[f + 1].status ELSE "Ok",
   updated  |-> IF f < NumChannels THEN f + 1 ELSE NumChannels,
   channels |-> ChannelsAfter(chs, frame, res, f)]

UpdateFrom(chs, frame, res) == UpdateOutcome(chs, frame, res, FirstFailure(res, 0))


\* ------------------------------------------------------------- transport
\* One operation on the serial port: write_all, flush, bytes_to_read or
\* read_exact; data is what was written, the count returned or the bytes read
PortOp(op, data) == [op |-> op, data |-> data, ok |-> TRUE]

\* the operations a call performs when the failAt-th one fails (0: none does)
Perform(plan, failAt) ==
  IF failAt \in 1..Len(plan)
  THEN [failed |-> TRUE,
        error  |-> IF plan[failAt].op = "bytes_to_read" THEN "SerialPort" ELSE "Io",
        io     |-> [k \in 1..failAt |->
                      IF k = failAt THEN [plan[k] EXCEPT !.ok = FALSE] ELSE plan[k]]]
  ELSE [failed |-> FALSE, error |-> "none", io |-> plan]

\* port operations of calibrate
CalibratePlan(id, reference, pending) ==
  <<PortOp("write", CmdCalibrate), PortOp("write", <<id>>),
    PortOp("write", ReferenceBytes(reference)), PortOp("flush", <<>>),
    PortOp("bytes_to_read", <<Len(pending)>>)>>
  \o (IF Len(pending) = 2 THEN <<PortOp("read", pending)>> ELSE <<>>)

\* any two pending bytes taken for the marker
CalibrateResultAnyTwo(pending) ==
  IF Len(pending) # 0
  THEN IF Len(pending) = 2 THEN "NoPowerOnChannel" ELSE "Protocol"
  ELSE "Ok"

\* result of calibrate once its port operations succeeded
CalibrateResult(pending) ==
  IF Len(pending) # 0
  THEN IF Len(pending) = 2
       THEN IF pending = FrameMarker THEN "NoPowerOnChannel" ELSE "Protocol"
       ELSE "Protocol"
  ELSE "Ok"

ResetCalibrationPlan == <<PortOp("write", CmdResetCalibration), PortOp("flush", <<>>)>>

FinalizeCalibrationPlan ==
  <<PortOp("write", CmdFinalizeCalibration), PortOp("flush", <<>>)>>

\* start_measurement without the flush after the begin-streaming command
StartMeasurementPlanNoFlush(pending) ==
  FinalizeCalibrationPlan
  \o <<PortOp("bytes_to_read", <<Len(pending)>>)>>
  \o (IF Len(pending) # 0 THEN <<PortOp("read", pending)>> ELSE <<>>)
  \o (IF Len(pending) # 0 /\ ~ReadyOk(pending) THEN <<>>
      ELSE <<PortOp("write", CmdBeginStreaming)>>)

\* port operations of start_measurement up to the call of wait
StartMeasurementPlan(pending) ==
  FinalizeCalibrationPlan
  \o <<PortOp("bytes_to_read", <<Len(pending)>>)>>
  \o (IF Len(pending) # 0 THEN <<PortOp("read", pending)>> ELSE <<>>)
  \o (IF Len(pending) # 0 /\ ~ReadyOk(pending) THEN <<>>
      ELSE <<PortOp("write", CmdBeginStreaming), PortOp("flush", <<>>)>>)

\* ----------------------------------------------------------------- inputs
\* instants SystemTime::now() may return; the clock is not monotonic
T1 == [secs |-> 1, nanos |-> 0]
T2 == [secs |-> 1, nanos |-> 2500000]
T3 == [secs |-> 5000001, nanos |-> 999999]
\* 2^32 ms after T1
T4 == [secs |-> 4294968, nanos |-> 296000000]
Times == {T1, T2}
EnergyTimes == {UNIX_EPOCH, T1, T2, T3, T4}

\* positions of the bytes after marker and sequence in a frame of 69 bytes
PayloadPositions == 1 .. (POWENETICS_MEASUREMENT_PACKET_SIZE - 4)

\* the 65 payload bytes of a frame: 13 x (voltage: 2, current: 3)
PayloadZero == [k \in PayloadPositions |-> 0]
\* channel i: voltage 1 + i, current 3
PayloadSmall ==
  [k \in PayloadPositions |-> IF k % 5 = 2 THEN 1 + (k \div 5) ELSE IF k % 5 = 0 THEN 3 ELSE 0]
\* every channel: voltage 65535, current 65537 (power 2^32 - 1)
PayloadBig ==
  [k \in PayloadPositions |-> IF k % 5 \in {1, 2} THEN 255 ELSE IF k % 5 = 4 THEN 0 ELSE 1]
\* channels 0..4 as in PayloadSmall, channels 5..12: voltage 65535, current 2^24 - 1
PayloadLate == [k \in PayloadPositions |-> IF k <= 25 THEN PayloadSmall[k] ELSE 255]

Frame(marker, seq, payload) == marker \o U16Bytes(seq) \o payload

\* frames the transport may deliver when `expected` is the expected sequence:
\* well-formed ones, ones with a wrong marker (with the expected sequence or
\* not) and ones with a wrong sequence
Frames(expected) ==
  {Frame(FrameMarker, expected, p) : p \in {PayloadSmall, PayloadLate}}
  \cup {Frame(m, q, PayloadSmall) : m \in {<<202, 0>>, <<0, 172>>}, q \in {expected, 0}}
  \cup {Frame(FrameMarker, q, PayloadSmall) :
          q \in {(expected + 1) % U16Modulus, (expected + U16Modulus - 1) % U16Modulus}}

EnergyFrames(expected) ==
  {Frame(FrameMarker, expected, p) : p \in {PayloadSmall, PayloadBig, PayloadLate}}

LongFrames(expected) ==
  {Frame(FrameMarker, q, PayloadZero) : q \in {expected, (expected + 1) % U16Modulus}}

\* what the port does during start_measurement: the bytes pending after the
\* finalize-calibration command and the operation that fails (0: none)
ReadyPendings ==
  { <<>>,
    POWENETICS_READY_MESSAGE \o <<13, 10>>,
    <<80, 77, 68>>,
    <<255>> \o POWENETICS_READY_MESSAGE,
    <<195, 169>> \o POWENETICS_READY_MESSAGE,
    <<80, 77, 68, 32, 105, 115, 32, 114, 101, 97, 100, 121, 63>> }

StartPorts ==
  {[pending |-> p, failAt |-> 0] : p \in ReadyPendings}
  \cup {[pending |-> <<>>, failAt |-> k] : k \in 1..5}
  \cup {[pending |-> POWENETICS_READY_MESSAGE, failAt |-> k] : k \in 4..6}

QuietPort == {[pending |-> <<>>, failAt |-> 0]}

\* channels whose energy is reset
ResetChannels == {0, 5}

\* what the port does during calibrate
CalibratePendings == { <<>>, FrameMarker, <<202, 0>>, <<202>>, <<202, 172, 0>> }

CalibratePorts ==
  {[pending |-> p, failAt |-> 0] : p \in CalibratePendings}
  \cup {[pending |-> <<>>, failAt |-> k] : k \in 1..5}
  \cup {[pending |-> FrameMarker, failAt |-> 6]}

CalibrateReferences == {66051, 2130706433}

CalibrateChannels == {0, 12}

SubscriberReturns == {"Continue", "Stop", "Err"}

\* ------------------------------------------------------------------ state
VARIABLES
  started,           \* Powenetics.started
  subscriptions,     \* Powenetics.subscriptions: subscribers in registration order
  channels,          \* Powenetics.data.channels
  data_last_update,  \* Powenetics.data.last_update
  overflow_checks,   \* the build: TRUE if arithmetic overflow panics
  pc,                \* "idle", "wait_read", "wait_dispatch" or "panicked"
  result,            \* the last call and what it returned
  io,                \* port operations of the last call before its loop
  reads,             \* frame reads (read_exact of 69 bytes) so far
  refused,           \* TRUE once start_measurement has returned NoSubscribers
  sequence,          \* wait: the expected sequence
  buf,               \* wait: the frame read last
  stop,              \* wait: the stop votes of this frame so far
  idx,               \* wait: position in subscriptions of the next to invoke
  accepted,          \* frames that passed the marker and the sequence check
  updated,           \* channels stored from the frame read last
  votes,             \* subscribers invoked for the frame read last, with returns
  invoked            \* invocations of each subscriber

vars == <<started, subscriptions, channels, data_last_update, overflow_checks,
          pc, result, io, reads, refused, sequence, buf, stop, idx, accepted, updated,
          votes, invoked>>

loopVars == <<sequence, buf, stop, idx, accepted, updated, votes, invoked>>

\* a call and what it returned; arg and id are the arguments of calibrate
\* (reference, channel id) and the argument and the channel found of
\* channel_by_id
Result(op, res) == [op |-> op, res |-> res, arg |-> 0, id |-> 0]

\* the driver as `new` returns it, in a debug or a release build
Init ==
  /\ started = FALSE
  /\ subscriptions = <<>>
  /\ channels = [i \in ChannelIds |-> NewChannel(i)]
  /\ data_last_update = UNIX_EPOCH
  /\ overflow_checks \in BOOLEAN
  /\ pc = "idle"
  /\ result = Result("new", "Ok")
  /\ io = <<>>
  /\ reads = 0
  /\ refused = FALSE
  /\ sequence = 0
  /\ buf = <<>>
  /\ stop = FALSE
  /\ idx = 0
  /\ accepted = 0
  /\ updated = 0
  /\ votes = <<>>
  /\ invoked = [s \in 1..MaxSubs |-> 0]

\* Powenetics::subscribe
Subscribe(maxSubs) ==
  /\ pc = "idle"
  /\ Len(subscriptions) < maxSubs
  /\ subscriptions' = Append(subscriptions, Len(subscriptions) + 1)
  /\ result' = Result("subscribe", "Ok")
  /\ io' = <<>>
  /\ UNCHANGED <<started, channels, data_last_update, overflow_checks, pc, reads, refused>>
  /\ UNCHANGED loopVars

\* Powenetics::calibrate
Calibrate(id, reference, pending, failAt) ==
  /\ pc = "idle"
  /\ IF started
     THEN /\ io' = <<>>
          /\ result' = [Result("calibrate", "MeasurementAlreadyStarted")
                          EXCEPT !.arg = reference, !.id = id]
     ELSE LET p == Perform(CalibratePlan(id, reference, pending), failAt)
          IN  /\ io' = p.io
              /\ result' = [Result("calibrate",
                                   IF p.failed THEN p.error
                                   ELSE CalibrateResult(pending))
                              EXCEPT !.arg = reference, !.id = id]
  /\ UNCHANGED <<started, subscriptions, channels, data_last_update,
                 overflow_checks, pc, reads, refused>>
  /\ UNCHANGED loopVars

\* reset_calibration without the check of started
ResetCalibrationUnguarded(failAt) ==
  /\ pc = "idle"
  /\ LET p == Perform(ResetCalibrationPlan, failAt)
     IN  /\ io' = p.io
         /\ result' = Result("reset_calibration", IF p.failed THEN p.error ELSE "Ok")
  /\ UNCHANGED <<started, subscriptions, channels, data_last_update,
                 overflow_checks, pc, reads, refused>>
  /\ UNCHANGED loopVars

\* Powenetics::reset_calibration
ResetCalibration(failAt) ==
  /\ pc = "idle"
  /\ IF started
     THEN /\ io' = <<>>
          /\ result' = Result("reset_calibration", "MeasurementAlreadyStarted")
     ELSE LET p == Perform(ResetCalibrationPlan, failAt)
          IN  /\ io' = p.io
              /\ result' = Result("reset_calibration",
                                  IF p.failed THEN p.error ELSE "Ok")
  /\ UNCHANGED <<started, subscriptions, channels, data_last_update,
                 overflow_checks, pc, reads, refused>>
  /\ UNCHANGED loopVars

\* PoweneticsData::channel_by_id, on the driver's data
ChannelById(id) ==
  /\ pc = "idle"
  /\ LET r == channel_by_id(channels, id)
     IN  /\ result' = [op |-> "channel_by_id", res |-> r.status, arg |-> id,
                       id |-> r.id]
         /\ pc' = IF r.status = "Panic" THEN "panicked" ELSE "idle"
  /\ io' = <<>>
  /\ UNCHANGED <<started, subscriptions, channels, data_last_update,
                 overflow_checks, reads, refused>>
  /\ UNCHANGED loopVars

\* Channel::reset_energy on channel i of the driver's data.  Only code of the
\* crate itself reaches a &mut Channel, and only while no call of the driver
\* is running.
ResetEnergy(i) ==
  /\ pc = "idle"
  /\ channels' = [channels EXCEPT ![i] = reset_energy(@)]
  /\ result' = [op |-> "reset_energy", res |-> "Ok", arg |-> 0, id |-> i]
  /\ io' = <<>>
  /\ UNCHANGED <<started, subscriptions, data_last_update, overflow_checks, pc,
                 reads, refused>>
  /\ UNCHANGED loopVars

\* Powenetics::start_measurement up to the loop of wait: finalize_calibration,
\* the ready text, the begin-streaming command, started = true, and the
\* subscriber check of wait
StartMeasurement(pending, failAt) ==
  /\ pc = "idle"
  /\ IF started
     THEN /\ io' = <<>>
          /\ result' = Result("start_measurement", "MeasurementAlreadyStarted")
          /\ UNCHANGED <<started, pc, sequence, refused>>
     ELSE LET p == Perform(StartMeasurementPlan(pending), failAt)
          IN  /\ io' = p.io
              /\ IF p.failed
                 THEN /\ result' = Result("start_measurement", p.error)
                      /\ UNCHANGED <<started, pc, sequence, refused>>
                 ELSE IF Len(pending) # 0 /\ ~ReadyOk(pending)
                 THEN /\ result' = Result("start_measurement", "Protocol")
                      /\ UNCHANGED <<started, pc, sequence, refused>>
                 ELSE /\ started' = TRUE
                      /\ IF subscriptions = <<>>
                         THEN /\ result' = Result("start_measurement", "NoSubscribers")
                              /\ refused' = TRUE
                              /\ UNCHANGED <<pc, sequence>>
                         ELSE /\ result' = Result("start_measurement", "running")
                              /\ sequence' = FirstSequence
                              /\ pc' = "wait_read"
                              /\ UNCHANGED refused
  /\ UNCHANGED <<subscriptions, channels, data_last_update, overflow_checks, reads>>
  /\ UNCHANGED <<buf, stop, idx, accepted, updated, votes, invoked>>

\* wait: read_exact of one frame fails (timeout or any other I/O error)
WaitReadFail ==
  /\ pc = "wait_read"
  /\ reads' = reads + 1
  /\ result' = Result("start_measurement", "Io")
  /\ pc' = "idle"
  /\ UNCHANGED <<started, subscriptions, channels, data_last_update,
                 overflow_checks, io, refused>>
  /\ UNCHANGED loopVars

\* the frame stored into the channels before the marker and the sequence
\* number are checked
WaitReadStoreFirst(frame, now) ==
  /\ pc = "wait_read"
  /\ reads' = reads + 1
  /\ buf' = frame
  /\ data_last_update' = now
  /\ votes' = <<>>
  /\ \E res \in {ChannelResults(channels, frame, now, overflow_checks)} :
       \E u \in {UpdateFrom(channels, frame, res)} :
         /\ channels' = u.channels
         /\ updated' = u.updated
         /\ IF ~MarkerOk(frame) \/ sequence # SequenceReceived(frame)
            THEN /\ result' = Result("start_measurement", "Protocol")
                 /\ pc' = "idle"
                 /\ UNCHANGED <<sequence, accepted, stop, idx>>
            ELSE /\ sequence' = NextSequence(sequence)
                 /\ accepted' = accepted + 1
                 /\ IF u.status = "Ok"
                    THEN /\ stop' = FALSE
                         /\ idx' = 1
                         /\ pc' = "wait_dispatch"
                         /\ UNCHANGED result
                    ELSE /\ pc' = IF u.status = "Panic" THEN "panicked" ELSE "idle"
                         /\ result' = Result("start_measurement", u.status)
                         /\ UNCHANGED <<stop, idx>>
  /\ UNCHANGED <<started, subscriptions, overflow_checks, io, invoked, refused>>

\* wait: one frame is read at time now, checked and stored into the channels
WaitRead(frame, now) ==
  /\ pc = "wait_read"
  /\ reads' = reads + 1
  /\ buf' = frame
  /\ data_last_update' = now
  /\ votes' = <<>>
  /\ IF ~MarkerOk(frame) \/ sequence # SequenceReceived(frame)
     THEN /\ result' = Result("start_measurement", "Protocol")
          /\ pc' = "idle"
          /\ updated' = 0
          /\ UNCHANGED <<channels, sequence, accepted, stop, idx>>
     ELSE \E res \in {ChannelResults(channels, frame, now, overflow_checks)} :
            \E u \in {UpdateFrom(channels, frame, res)} :
              /\ sequence' = NextSequence(sequence)
              /\ accepted' = accepted + 1
              /\ channels' = u.channels
              /\ updated' = u.updated
              /\ IF u.status = "Ok"
                 THEN /\ stop' = FALSE
                      /\ idx' = 1
                      /\ pc' = "wait_dispatch"
                      /\ UNCHANGED result
                 ELSE /\ pc' = IF u.status = "Panic" THEN "panicked" ELSE "idle"
                      /\ result' = Result("start_measurement", u.status)
                      /\ UNCHANGED <<stop, idx>>
  /\ UNCHANGED <<started, subscriptions, overflow_checks, io, invoked, refused>>

\* the last vote replacing the earlier ones
StopVoteLast(ret, stopBefore) == ret = "Stop"

\* stop = sub.update(&self.data)? || stop
StopVote(ret, stopBefore) == (ret = "Stop") \/ stopBefore

\* the subscriber loop left at the first stop vote
MoreSubscribersUntilStop(i, n, stopNow) == i < n /\ ~stopNow

\* for sub in &mut self.subscriptions: another subscriber follows the i-th of n,
\* whatever the votes so far
MoreSubscribers(i, n, stopNow) == i < n

\* the failure of update taken for a vote to go on
SubscriberFailsNever(ret) == FALSE

\* sub.update(&self.data).map_err(..)?: the subscriber returned an error
SubscriberFails(ret) == ret = "Err"

\* wait: the next subscriber is invoked and returns ret; after the last one
\* the loop ends if stop is set
WaitDispatch(ret) ==
  /\ pc = "wait_dispatch"
  /\ idx \in 1..Len(subscriptions)
  /\ votes' = Append(votes, [sub |-> subscriptions[idx], ret |-> ret])
  /\ invoked' = [invoked EXCEPT ![subscriptions[idx]] = @ + 1]
  /\ IF SubscriberFails(ret)
     THEN /\ result' = Result("start_measurement", "Subscriber")
          /\ pc' = "idle"
          /\ UNCHANGED <<stop, idx>>
     ELSE /\ stop' = StopVote(ret, stop)
          /\ IF MoreSubscribers(idx, Len(subscriptions), stop')
             THEN /\ idx' = idx + 1
                  /\ UNCHANGED <<pc, result>>
             ELSE /\ idx' = 0
                  /\ IF stop'
                     THEN /\ pc' = "idle"
                          /\ result' = Result("start_measurement", "Ok")
                     ELSE /\ pc' = "wait_read"
                          /\ UNCHANGED result
  /\ UNCHANGED <<started, subscriptions, channels, data_last_update,
                 overflow_checks, io, reads, refused, sequence, buf, accepted,
                 updated>>

\* ---------------------------------------------------------- specification
\* The driver under every call, with frames of all kinds
Next ==
  \/ Subscribe(MaxSubs)
  \/ \E id \in CalibrateChannels, reference \in CalibrateReferences,
        port \in CalibratePorts :
       Calibrate(id, reference, port.pending, port.failAt)
  \/ \E failAt \in 0..2 : ResetCalibration(failAt)
  \/ \E port \in StartPorts : StartMeasurement(port.pending, port.failAt)
  \/ reads < MaxFrames /\ WaitReadFail
  \/ /\ reads < MaxFrames
     /\ \E frame \in Frames(sequence), now \in Times : WaitRead(frame, now)
  \/ \E ret \in SubscriberReturns : WaitDispatch(ret)
  \/ \E i \in ResetChannels : ResetEnergy(i)

Spec == Init /\ [][Next]_vars

\* The measurement loop on well-formed frames, with payloads and clock
\* readings that exercise the energy arithmetic
NextEnergy ==
  \/ Subscribe(MaxEnergySubs)
  \/ \E port \in QuietPort : StartMeasurement(port.pending, port.failAt)
  \/ /\ reads < MaxEnergyFrames
     /\ \E frame \in EnergyFrames(sequence), now \in EnergyTimes : WaitRead(frame, now)
  \/ \E ret \in {"Continue", "Stop"} : WaitDispatch(ret)
  \/ \E i \in ResetChannels : ResetEnergy(i)

SpecEnergy == Init /\ [][NextEnergy]_vars

\* The measurement loop over more than 2^16 frames
InitLong == Init /\ ~overflow_checks

NextLong ==
  \/ Subscribe(MaxEnergySubs)
  \/ \E port \in QuietPort : StartMeasurement(port.pending, port.failAt)
  \/ /\ reads < MaxLongFrames
     /\ \E frame \in LongFrames(sequence) : WaitRead(frame, T1)
  \/ \E ret \in {"Continue"} : WaitDispatch(ret)

SpecLong == InitLong /\ [][NextLong]_vars

\* Channel lookup on a driver before measurement
NextLookup ==
  \/ Subscribe(MaxSubs)
  \/ \E id \in CalibrateChannels, reference \in CalibrateReferences,
        port \in CalibratePorts :
       Calibrate(id, reference, port.pending, port.failAt)
  \/ \E failAt \in 0..2 : ResetCalibration(failAt)
  \/ \E id \in 0..MaxId : ChannelById(id)
  \/ \E i \in ResetChannels : ResetEnergy(i)

SpecLookup == Init /\ [][NextLookup]_vars

\* ------------------------------------------------------------ properties
\* a step that is a call of operation op on the idle driver
CallStep(op) == pc = "idle" /\ result'.op = op

\* a step of the loop in which read_exact delivered a frame (now in buf')
FrameReadStep == pc = "wait_read" /\ reads' = reads + 1 /\ result'.res # "Io"

\* a step of the loop that ends the dispatch of a frame without a failure
DispatchEndStep ==
  pc = "wait_dispatch" /\ pc' # "wait_dispatch" /\ result'.res # "Subscriber"

HasStop(vs) == \E k \in 1..Len(vs) : vs[k].ret = "Stop"

\* C1: a start_measurement call on a driver with no subscriber fails with
\* NoSubscribers and performs no port operation at all: nothing is written
\* (neither the finalize-calibration nor the begin-streaming command) and
\* nothing is read.
C1_NoSubscribersBeforeIO ==
  [][(CallStep("start_measurement") /\ ~started /\ subscriptions = <<>>)
       => (/\ result'.res = "NoSubscribers"
           /\ io' = <<>>
           /\ reads' = reads)]_vars

\* C2: once start_measurement has failed with NoSubscribers, a later
\* start_measurement call made with a subscriber registered does not fail
\* with MeasurementAlreadyStarted.
C2_RecoverableAfterNoSubscribers ==
  [][(CallStep("start_measurement") /\ refused /\ subscriptions # <<>>)
       => result'.res # "MeasurementAlreadyStarted"]_vars

\* C3: when started is true, every call of calibrate, reset_calibration and
\* start_measurement returns MeasurementAlreadyStarted and performs no port
\* operation (no write, flush, bytes_to_read or read), whatever its arguments
\* and however the measurement went.
C3_AlreadyStartedNoIO ==
  [][((CallStep("calibrate") \/ CallStep("reset_calibration")
         \/ CallStep("start_measurement")) /\ started)
       => (/\ result'.res = "MeasurementAlreadyStarted"
           /\ io' = <<>>
           /\ reads' = reads
           /\ pc' = "idle"
           /\ started')]_vars

C3_Witness ==
  /\ started
  /\ accepted >= 1
  /\ result.op = "calibrate"
  /\ result.res = "MeasurementAlreadyStarted"
  /\ io = <<>>

\* C4: a frame read in the loop is accepted only if its big-endian sequence
\* field equals the number of frames accepted before it plus one, modulo 2^16
\* (1 for the first frame, 0 after 65535), and with a good marker it then is
\* accepted; any other sequence value ends the call with a Protocol error
\* without invoking a subscriber, and once the call has ended no frame is read
\* and no subscriber is invoked any more.
C4_SequenceCounter ==
  [][/\ FrameReadStep
          => LET field    == buf'[3] * 256 + buf'[4]
                 expected == (accepted + 1) % 65536
             IN  /\ accepted' # accepted
                      => (accepted' = accepted + 1 /\ field = expected)
                 /\ (buf'[1] = 202 /\ buf'[2] = 172 /\ field = expected)
                      => (accepted' = accepted + 1 /\ result'.res # "Protocol")
                 /\ field # expected
                      => /\ accepted' = accepted
                         /\ result'.res = "Protocol"
                         /\ pc' = "idle"
                         /\ invoked' = invoked
     /\ (pc = "idle" /\ started)
          => (reads' = reads /\ invoked' = invoked /\ accepted' = accepted)]_vars

C4_Witness ==
  /\ accepted = 65536
  /\ sequence = 1
  /\ pc = "idle"
  /\ result.res = "Protocol"
  /\ buf[1] = 202 /\ buf[2] = 172
  /\ buf[3] * 256 + buf[4] # 1

\* C5: a frame whose first two bytes are not 0xCA, 0xAC ends the call with a
\* Protocol error whatever else it contains and however many frames were
\* accepted before; it is not accepted, no channel changes and no subscriber
\* is invoked.
C5_BadMarker ==
  [][(FrameReadStep /\ ~(buf'[1] = 202 /\ buf'[2] = 172))
       => (/\ result'.res = "Protocol"
           /\ pc' = "idle"
           /\ accepted' = accepted
           /\ channels' = channels
           /\ invoked' = invoked)]_vars

C5_Witness ==
  /\ accepted >= 1
  /\ result.res = "Protocol"
  /\ Len(buf) = 69
  /\ buf[1] = 202 /\ buf[2] # 172
  /\ buf[3] * 256 + buf[4] = (accepted + 1) % 65536

\* whole milliseconds from instant t1 to a later instant t2, as a wide number
ElapsedMillis(t1, t2) ==
  LET borrow == IF t2.nanos < t1.nanos THEN 1 ELSE 0
  IN  WAddFull(WMulFull(WFromInt(t2.secs - t1.secs - borrow, 4), WFromInt(1000, 2)),
               WFromInt((t2.nanos + borrow * 1000000000 - t1.nanos) \div 1000000, 2))

\* a step in which a valid frame that follows an earlier valid frame has been
\* stored into every channel
SecondFrameStep ==
  FrameReadStep /\ accepted >= 1 /\ accepted' = accepted + 1 /\ pc' = "wait_dispatch"

\* the energy arithmetic of one channel for a frame carrying voltage v and
\* current c, ms milliseconds after the channel's last update: the new energy
\* with every result reduced to its width, whether a result exceeded it, and
\* whether the final 64-bit addition did
LaterFrameEnergy(energy, v, c, ms) ==
  LET product   == WMulFull(WFromInt(v, 2), WFromInt(c, 4))
      increment == WMulFull(WResize(product, 4), WResize(ms, 8))
      sum       == WAddFull(energy, WResize(increment, 8))
  IN  [value    |-> WResize(sum, 8),
       exceeded |-> WExceeds(product, 4) \/ WExceeds(increment, 8)
                      \/ WExceeds(sum, 8),
       wrapped  |-> WExceeds(sum, 8)]

\* C6 as stated, in the cases where t1 is after the Unix epoch and no product
\* or sum of the second frame exceeds its width: for consecutive valid frames
\* received at t1 < t2, each channel's energy after the second frame is its
\* energy before plus voltage x current of the FIRST frame x the whole
\* milliseconds from t1 to t2.
C6_EnergyFromEarlierFrame ==
  [][SecondFrameStep
       => \A i \in ChannelIds :
            (/\ TimeLess(channels[i].last_update, data_last_update')
             /\ channels[i].last_update # [secs |-> 0, nanos |-> 0]
             /\ ~LaterFrameEnergy(channels[i].energy, channels'[i].voltage,
                                  channels'[i].current,
                                  ElapsedMillis(channels[i].last_update,
                                                data_last_update')).exceeded)
              => WEq(channels'[i].energy,
                     WAddFull(channels[i].energy,
                       WMulFull(WMulFull(WFromInt(channels[i].voltage, 2),
                                         WFromInt(channels[i].current, 4)),
                                ElapsedMillis(channels[i].last_update,
                                              data_last_update'))))]_vars

\* C6 amended: for consecutive valid frames received at t1 < t2, t1 not the
\* Unix epoch, each channel's energy after the second frame is its energy
\* before plus P x (whole milliseconds from t1 to t2) modulo 2^64, where P is
\* voltage x current of the SECOND frame modulo 2^32.  A build with overflow
\* checks panics at the first channel where a product or the sum exceeds its
\* width: the channels before it are updated as stated, that channel and the
\* later ones keep their energy.
C6_EnergyFromLaterFrame ==
  [][(FrameReadStep /\ accepted >= 1 /\ accepted' = accepted + 1)
       => \A i \in ChannelIds :
            (/\ TimeLess(channels[i].last_update, data_last_update')
             /\ channels[i].last_update # [secs |-> 0, nanos |-> 0])
              => LET e == LaterFrameEnergy(channels[i].energy,
                            buf'[5 + 5 * i] * 256 + buf'[6 + 5 * i],
                            buf'[7 + 5 * i] * 65536 + buf'[8 + 5 * i] * 256
                              + buf'[9 + 5 * i],
                            ElapsedMillis(channels[i].last_update,
                                          data_last_update'))
                 IN  IF pc' = "wait_dispatch"
                     THEN /\ channels'[i].energy = e.value
                          /\ overflow_checks => ~e.exceeded
                     ELSE /\ pc' = "panicked"
                          /\ overflow_checks
                          /\ IF i < updated' - 1
                             THEN channels'[i].energy = e.value /\ ~e.exceeded
                             ELSE /\ channels'[i].energy = channels[i].energy
                                  /\ i = updated' - 1 => e.exceeded]_vars

C6_Witness ==
  /\ accepted = 2
  /\ pc = "wait_dispatch"
  /\ ~overflow_checks
  /\ data_last_update = T2
  /\ channels[0].voltage = 1
  /\ channels[0].energy = WFromInt(6, 8)
  /\ channels[5].voltage = 65535
  /\ channels[5].current = 16777215
  /\ channels[5].energy = <<2, 0, 254, 253, 1, 0, 0, 0>>

\* C7: the first valid frame of a driver leaves every channel's energy at 0
\* and sets every channel's last_update to the time the frame was received;
\* no channel has energy before the second valid frame.
C7_FirstFrameBaseline ==
  [][/\ (FrameReadStep /\ accepted = 0 /\ accepted' = 1)
          => /\ pc' = "wait_dispatch"
             /\ \A i \in ChannelIds :
                  /\ channels'[i].energy = WZero(8)
                  /\ channels'[i].last_update = data_last_update'
     /\ accepted' <= 1 => \A i \in ChannelIds : channels'[i].energy = WZero(8)]_vars

C7_Witness ==
  /\ accepted = 1
  /\ pc = "wait_dispatch"
  /\ data_last_update = T2
  /\ channels[3].voltage = 65535
  /\ channels[3].current = 65537
  /\ channels[3].energy = WZero(8)
  /\ channels[3].last_update = T2

\* C8: channel_by_id(id) returns InvalidChannel for every id >= 13 and the
\* channel whose id field is id for every id in 0..12; it never aborts and
\* changes nothing in the driver.
C8_ChannelByIdRange ==
  [][CallStep("channel_by_id")
       => /\ pc' = "idle"
          /\ IF result'.arg >= 13 THEN result'.res = "InvalidChannel"
             ELSE result'.res = "Ok" /\ result'.id = result'.arg
          /\ UNCHANGED <<started, subscriptions, channels, data_last_update>>]_vars

VoteSubs(vs) == [k \in 1..Len(vs) |-> vs[k].sub]

\* C9: for a frame that reaches dispatch, each step invokes exactly the next
\* subscriber in registration order; when no subscriber fails every
\* registered subscriber has been invoked once for the frame, also those
\* registered after one that voted stop, and the loop ends exactly if some
\* subscriber voted stop.
C9_DispatchAllInOrder ==
  [][/\ pc = "wait_dispatch"
          => /\ Len(votes') = Len(votes) + 1
             /\ VoteSubs(votes') = SubSeq(subscriptions, 1, Len(votes'))
             /\ invoked' = [invoked EXCEPT ![subscriptions[Len(votes')]] = @ + 1]
     /\ DispatchEndStep
          => /\ VoteSubs(votes') = subscriptions
             /\ (pc' = "idle" /\ result'.res = "Ok") <=> HasStop(votes')
             /\ pc' = "wait_read" <=> ~HasStop(votes')]_vars

C9_Witness ==
  /\ pc = "idle"
  /\ result.res = "Ok"
  /\ Len(votes) = 2
  /\ votes[1].ret = "Stop"
  /\ votes[2].ret = "Continue"

\* C10: when frame N is the first on which a subscriber votes stop and no
\* subscriber fails, start_measurement returns Ok after that frame, having
\* read exactly N frames, all accepted, and invoked every subscriber exactly
\* N times; each frame dispatched had all 13 channels updated; after the
\* return no further frame is read.
C10_StopsAtFirstStopFrame ==
  [][/\ (/\ pc = "wait_dispatch"
         /\ Len(votes') = Len(subscriptions)
         /\ result'.res # "Subscriber"
         /\ HasStop(votes'))
          => pc' = "idle" /\ result'.res = "Ok"
     /\ (pc = "wait_dispatch" /\ pc' = "idle" /\ result'.res = "Ok")
          => /\ HasStop(votes')
             /\ reads' = accepted'
             /\ \A k \in 1..Len(subscriptions) : invoked'[subscriptions[k]] = accepted'
     /\ pc' = "wait_dispatch"
          => /\ updated' = 13
             /\ reads' = accepted'
             /\ \A i \in ChannelIds : channels'[i].last_update = data_last_update'
     /\ (pc = "idle" /\ started) => reads' = reads]_vars

C10_Witness ==
  /\ pc = "idle"
  /\ result.op = "start_measurement"
  /\ result.res = "Ok"
  /\ reads = 2
  /\ Len(subscriptions) = 2
  /\ invoked[1] = 2
  /\ invoked[2] = 2
  /\ votes[2].ret = "Stop"

\* C11: when a subscriber's update fails, the call ends at once with the
\* Subscriber error: the subscribers registered after the failing one are not
\* invoked for that frame, also when an earlier one voted stop, and afterwards
\* no frame is read and no subscriber is invoked.
C11_SubscriberFailureAborts ==
  [][/\ (pc = "wait_dispatch" /\ votes'[Len(votes')].ret = "Err")
          => /\ result' = Result("start_measurement", "Subscriber")
             /\ pc' = "idle"
             /\ Len(votes') = Len(votes) + 1
             /\ VoteSubs(votes') = SubSeq(subscriptions, 1, Len(votes'))
             /\ \A k \in 1..Len(subscriptions) :
                  invoked'[subscriptions[k]] =
                    invoked[subscriptions[k]] + (IF k = Len(votes') THEN 1 ELSE 0)
             /\ reads' = reads
     /\ (pc = "idle" /\ result.res = "Subscriber")
          => (reads' = reads /\ invoked' = invoked /\ votes' = votes)]_vars

C11_Witness ==
  /\ pc = "idle"
  /\ result = Result("start_measurement", "Subscriber")
  /\ Len(subscriptions) = 3
  /\ Len(votes) = 2
  /\ votes[1].ret = "Stop"
  /\ votes[2].ret = "Err"
  /\ reads = 2
  /\ invoked[2] = 2
  /\ invoked[3] = 1

\* C12: started is false at construction and, once true, stays true under
\* every call, failed or not; it becomes true only in a start_measurement call
\* whose last two port operations are the write of 0xCA 0xAC 0xBD 0x90 and the
\* flush, both successful.
C12_StartedOnceAfterBeginStreaming ==
  /\ ~started
  /\ [][/\ started => started'
        /\ (~started /\ started')
             => /\ CallStep("start_measurement")
                /\ Len(io') >= 2
                /\ io'[Len(io') - 1] =
                     [op |-> "write", data |-> <<202, 172, 189, 144>>, ok |-> TRUE]
                /\ io'[Len(io')] = [op |-> "flush", data |-> <<>>, ok |-> TRUE]]_vars

C12_Witness ==
  /\ started
  /\ pc = "idle"
  /\ accepted >= 1
  /\ result.op = "start_measurement"
  /\ result.res = "MeasurementAlreadyStarted"

\* C13: calibrate on a driver not started, when no port operation fails,
\* returns Ok if 0 bytes are pending after the command, NoPowerOnChannel if
\* exactly 2 are pending and they are 0xCA 0xAC, and Protocol if exactly 2 other
\* bytes or any other number of bytes are pending; before that it has written
\* 0xCA, the channel id and the low three bytes of the reference, most
\* significant first, and flushed; started stays false.
C13_CalibrateClassification ==
  [][(CallStep("calibrate") /\ ~started)
       => /\ ~started'
          /\ pc' = "idle"
          /\ IF \E k \in 1..Len(io') : ~io'[k].ok
             THEN result'.res \in {"Io", "SerialPort"}
             ELSE /\ Len(io') >= 5
                  /\ io'[1] = [op |-> "write", data |-> <<202>>, ok |-> TRUE]
                  /\ io'[2] = [op |-> "write", data |-> <<result'.id>>, ok |-> TRUE]
                  /\ io'[3] = [op |-> "write", ok |-> TRUE,
                               data |-> <<(result'.arg \div 65536) % 256,
                                          (result'.arg \div 256) % 256,
                                          result'.arg % 256>>]
                  /\ io'[4] = [op |-> "flush", data |-> <<>>, ok |-> TRUE]
                  /\ io'[5].op = "bytes_to_read"
                  /\ LET n == io'[5].data[1]
                     IN  /\ n = 0 => (result'.res = "Ok" /\ Len(io') = 5)
                         /\ n = 2 => /\ Len(io') = 6
                                     /\ io'[6].op = "read"
                                     /\ result'.res =
                                          IF io'[6].data = <<202, 172>>
                                          THEN "NoPowerOnChannel" ELSE "Protocol"
                         /\ n \notin {0, 2}
                              => (result'.res = "Protocol" /\ Len(io') = 5)]_vars

C13_Witness ==
  /\ ~started
  /\ result.op = "calibrate"
  /\ result.res = "NoPowerOnChannel"
  /\ result.arg = 2130706433
  /\ result.id = 12
  /\ Len(io) = 6
  /\ io[3].data = <<0, 0, 1>>
  /\ io[6].data = <<202, 172>>

\* C14: the power used in energy integration is the exact product
\* voltage x current: whenever a valid frame follows an earlier valid frame
\* ms milliseconds later and energy + voltage x current x ms fits in 64 bits,
\* the frame is stored and every channel's energy becomes exactly that sum.
C14_PowerExactProduct ==
  [][(FrameReadStep /\ accepted >= 1 /\ accepted' = accepted + 1)
       => \A i \in ChannelIds :
            (/\ channels[i].last_update # [secs |-> 0, nanos |-> 0]
             /\ ~TimeLess(data_last_update', channels[i].last_update))
              => LET product == WMulFull(
                                  WFromInt(buf'[5 + 5 * i] * 256 + buf'[6 + 5 * i], 2),
                                  WFromInt(buf'[7 + 5 * i] * 65536
                                             + buf'[8 + 5 * i] * 256
                                             + buf'[9 + 5 * i], 4))
                     sum == WAddFull(channels[i].energy,
                              WMulFull(product,
                                       ElapsedMillis(channels[i].last_update,
                                                     data_last_update')))
                 IN  ~WExceeds(sum, 8)
                       => /\ pc' = "wait_dispatch"
                          /\ WEq(channels'[i].energy, sum)]_vars

\* C15 as stated, in the cases where voltage x current of the frame and of
\* the frame before it fit in 32 bits: a channel's energy after an accepted
\* frame is greater than or equal to its energy before that frame.
C15_EnergyMonotonic ==
  [][(FrameReadStep /\ accepted' = accepted + 1)
       => \A i \in ChannelIds :
            (/\ ~power(channels[i]).overflow
             /\ ~WExceeds(WMulFull(
                            WFromInt(buf'[5 + 5 * i] * 256 + buf'[6 + 5 * i], 2),
                            WFromInt(buf'[7 + 5 * i] * 65536 + buf'[8 + 5 * i] * 256
                                       + buf'[9 + 5 * i], 4)), 4))
              => ~WLess(channels'[i].energy, channels[i].energy)]_vars

\* C15, amended: reset_energy sets the energy of its channel to 0 and changes
\* nothing else; no other step lowers a channel's energy, except an accepted
\* frame in a build without overflow checks whose 64-bit addition
\* energy + increment exceeds 2^64 - 1; the energy is then that sum modulo
\* 2^64.  (With overflow checks that addition panics and the energy stays as
\* it was.)
C15_EnergyMonotonicUnlessWrapped ==
  [][/\ CallStep("reset_energy")
          => \A i \in ChannelIds :
               channels'[i] = IF i = result'.id
                              THEN [channels[i] EXCEPT
                                      !.energy = <<0, 0, 0, 0, 0, 0, 0, 0>>]
                              ELSE channels[i]
     /\ \A i \in ChannelIds :
          (WLess(channels'[i].energy, channels[i].energy)
             /\ ~CallStep("reset_energy"))
            => /\ FrameReadStep
               /\ accepted' = accepted + 1
               /\ ~overflow_checks
               /\ channels[i].last_update # [secs |-> 0, nanos |-> 0]
               /\ ~TimeLess(data_last_update', channels[i].last_update)
               /\ LET e == LaterFrameEnergy(channels[i].energy,
                             buf'[5 + 5 * i] * 256 + buf'[6 + 5 * i],
                             buf'[7 + 5 * i] * 65536 + buf'[8 + 5 * i] * 256
                               + buf'[9 + 5 * i],
                             ElapsedMillis(channels[i].last_update,
                                           data_last_update'))
                  IN  e.wrapped /\ channels'[i].energy = e.value]_vars

\* a third frame 705032704 ms after the second has wrapped the energy of
\* channel 0 from 2^64 - 2^32 down to 2^32 * 705032703 - 705032704
C15_Witness ==
  /\ accepted = 3
  /\ pc = "wait_dispatch"
  /\ ~overflow_checks
  /\ data_last_update = T3
  /\ channels[0].voltage = 65535
  /\ channels[0].current = 65537
  /\ channels[0].energy = <<0, 14, 250, 213, 254, 241, 5, 42>>

\* C16: a frame with the marker and the expected sequence number, received
\* at a time earlier than a channel's last_update, ends the loop with the
\* SystemTime error; the frame changes no channel's energy or last_update and
\* no subscriber is invoked for it.
C16_ClockBackwardsAborts ==
  [][(/\ FrameReadStep
      /\ <<buf'[1], buf'[2]>> = <<202, 172>>
      /\ buf'[3] * 256 + buf'[4] = sequence
      /\ \E i \in ChannelIds : TimeLess(data_last_update', channels[i].last_update))
       => /\ result' = Result("start_measurement", "SystemTime")
          /\ pc' = "idle"
          /\ \A i \in ChannelIds :
               /\ channels'[i].energy = channels[i].energy
               /\ channels'[i].last_update = channels[i].last_update
          /\ invoked' = invoked
          /\ votes' = <<>>]_vars

\* the second frame, 2 ms of energy later, was followed by a third frame
\* stamped 2.5 ms earlier
C16_Witness ==
  /\ pc = "idle"
  /\ result = Result("start_measurement", "SystemTime")
  /\ accepted = 3
  /\ data_last_update = T1
  /\ \A i \in ChannelIds : channels[i].last_update = T2
  /\ channels[12].energy = WFromInt(2 * 13 * 3, 8)
  /\ channels[0].voltage = 1
  /\ updated = 1
  /\ \A s \in 1..Len(subscriptions) : invoked[subscriptions[s]] = 2

\* C17: start_measurement on a driver not started, with a subscriber
\* registered, that reads pending bytes which do not begin with the 13 bytes
\* of "PMD is ready!" fails with Protocol: the begin-streaming command
\* CA AC BD 90 is not written, no frame is read, no subscriber is invoked and
\* started stays false.
C17_NotReadyIsProtocolError ==
  [][(/\ CallStep("start_measurement")
      /\ ~started
      /\ subscriptions # <<>>
      /\ \E k \in 1..Len(io') :
           /\ io'[k].op = "read"
           /\ io'[k].ok
           /\ \/ Len(io'[k].data) < 13
              \/ SubSeq(io'[k].data, 1, 13)
                   # <<80, 77, 68, 32, 105, 115, 32, 114, 101, 97, 100, 121, 33>>)
       => /\ result' = Result("start_measurement", "Protocol")
          /\ \A k \in 1..Len(io') :
               ~(io'[k].op = "write" /\ io'[k].data = <<202, 172, 189, 144>>)
          /\ io'[Len(io')].op = "read"
          /\ reads' = reads
          /\ invoked' = invoked
          /\ ~started'
          /\ pc' = "idle"]_vars

\* the device answered "PMD is ready?"
C17_Witness ==
  /\ pc = "idle"
  /\ ~started
  /\ Len(subscriptions) = 2
  /\ result = Result("start_measurement", "Protocol")
  /\ Len(io) = 4
  /\ io[3] = [op |-> "bytes_to_read", data |-> <<13>>, ok |-> TRUE]
  /\ io[4] = [op |-> "read", ok |-> TRUE,
              data |-> <<80, 77, 68, 32, 105, 115, 32, 114, 101, 97, 100, 121, 63>>]

\* C18 as stated, for the frames that pass the marker and sequence checks
\* and do not end in a panic: after the frame every channel i has the
\* voltage of frame bytes 4+5i, 5+5i and the current of frame bytes
\* 6+5i..8+5i (offsets from 0; buf is indexed from 1).
C18_EveryChannelCarriesFrame ==
  [][(FrameReadStep /\ accepted' = accepted + 1 /\ pc' # "panicked")
       => \A i \in ChannelIds :
            /\ channels'[i].voltage = buf'[5 + 5 * i] * 256 + buf'[6 + 5 * i]
            /\ channels'[i].current = buf'[7 + 5 * i] * 65536
                                        + buf'[8 + 5 * i] * 256 + buf'[9 + 5 * i]]_vars

\* C18, amended: a frame that passed the checks and is handed to the
\* subscribers has stored its voltage and current, decoded as above, into
\* every channel; a frame whose energy integration fails at channel f has
\* stored them into channels 0..f and left channels f+1..12 as they were;
\* every channel's current is below 2^24 in every state.
C18_ChannelsCarryFrameUntilFailure ==
  [][/\ (FrameReadStep /\ accepted' = accepted + 1)
          => \E f \in 0..NumChannels :
               /\ (pc' = "wait_dispatch") = (f = NumChannels)
               /\ \A i \in ChannelIds :
                    IF i <= f
                    THEN /\ channels'[i].voltage
                              = buf'[5 + 5 * i] * 256 + buf'[6 + 5 * i]
                         /\ channels'[i].current
                              = buf'[7 + 5 * i] * 65536 + buf'[8 + 5 * i] * 256
                                  + buf'[9 + 5 * i]
                    ELSE channels'[i] = channels[i]
     /\ \A i \in ChannelIds :
          /\ channels'[i].current \in 0..16777215
          /\ channels'[i].voltage \in 0..65535]_vars

C18_Witness ==
  /\ pc = "wait_dispatch"
  /\ accepted = 2
  /\ channels[0].voltage = 1
  /\ channels[0].current = 3
  /\ channels[4].voltage = 5
  /\ channels[5].voltage = 65535
  /\ channels[12].voltage = 65535
  /\ channels[12].current = 16777215
  /\ SubSeq(buf, 65, 69) = <<255, 255, 255, 255, 255>>

\* C19: whenever a subscriber is invoked, the frame read last begins with
\* 0xCA 0xAC and carries the sequence number that was expected, every one of
\* the 13 channels has that frame's voltage and current and the last_update
\* of the snapshot, and the invocation changes none of it; no subscriber is
\* ever invoked more often than frames were accepted.
C19_SubscribersSeeValidatedSnapshot ==
  [][/\ invoked' # invoked
          => /\ pc = "wait_dispatch"
             /\ Len(buf) = 69
             /\ <<buf[1], buf[2]>> = <<202, 172>>
             /\ buf[3] * 256 + buf[4] = accepted % 65536
             /\ \A i \in ChannelIds :
                  /\ channels[i].voltage = buf[5 + 5 * i] * 256 + buf[6 + 5 * i]
                  /\ channels[i].current = buf[7 + 5 * i] * 65536
                                             + buf[8 + 5 * i] * 256 + buf[9 + 5 * i]
                  /\ channels[i].last_update = data_last_update
             /\ channels' = channels
             /\ data_last_update' = data_last_update
             /\ buf' = buf
     /\ \A s \in 1..MaxSubs : invoked'[s] <= accepted']_vars

C19_Witness ==
  /\ pc = "wait_dispatch"
  /\ accepted = 2
  /\ Len(subscriptions) = 3
  /\ Len(votes) = 1
  /\ invoked[subscriptions[1]] = 2
  /\ invoked[subscriptions[2]] = 1
  /\ data_last_update = T1
  /\ channels[12].last_update = T1
  /\ channels[12].current = 16777215
  /\ channels[12].energy = WZero(8)
  /\ buf[4] = 2

\* C20: a frame rejected for its marker or its sequence number, and a read
\* that fails, leave every channel's voltage, current, energy and last_update
\* as they were; the rejected frame's time of receipt replaces only the
\* snapshot's last_update, a failed read not even that.
C20_RejectedFrameKeepsChannels ==
  [][/\ (/\ FrameReadStep
         /\ \/ <<buf'[1], buf'[2]>> # <<202, 172>>
            \/ buf'[3] * 256 + buf'[4] # sequence)
          => /\ result' = Result("start_measurement", "Protocol")
             /\ pc' = "idle"
             /\ \A i \in ChannelIds : channels'[i] = channels[i]
             /\ accepted' = accepted
     /\ (pc = "wait_read" /\ reads' = reads + 1 /\ result'.res = "Io")
          => /\ pc' = "idle"
             /\ \A i \in ChannelIds : channels'[i] = channels[i]
             /\ data_last_update' = data_last_update
             /\ buf' = buf
             /\ accepted' = accepted]_vars

\* after two accepted frames, the second one 2 ms after the first, a frame
\* with sequence number 4 instead of 3 arrived, stamped 2.5 ms earlier
C20_Witness ==
  /\ pc = "idle"
  /\ result = Result("start_measurement", "Protocol")
  /\ accepted = 2
  /\ reads = 3
  /\ <<buf[1], buf[2]>> = <<202, 172>>
  /\ buf[3] * 256 + buf[4] = 4
  /\ data_last_update = T1
  /\ \A i \in ChannelIds : channels[i].last_update = T2
  /\ channels[12].voltage = 65535
  /\ channels[12].current = 16777215
  /\ channels[12].energy = <<2, 0, 254, 253, 1, 0, 0, 0>>

====
